---- MODULE Spec2Model ----
(***************************************************************************)
(* Model of the line buffer and undo/redo history of beditor               *)
(* (src/src/buffer.rs).  A row is a sequence of one-character strings      *)
(* (ASCII, so byte offsets and character offsets coincide); the buffer's   *)
(* `lines` is a sequence of rows.  A Rust panic (an out-of-range split_at, *)
(* an unwrap of None) aborts the process: the operation does not complete, *)
(* `panicked` becomes TRUE and no further operation runs.                  *)
(*                                                                         *)
(* Spec runs every public operation of Buffer, in any order, from a few    *)
(* starting files; SpecEdit applies one edit primitive to every small      *)
(* buffer.  SpecEditor runs the key events of Editor::evaluate_event       *)
(* (src/src/editor.rs) on a terminal of TermWidth x TermHeight cells; the  *)
(* save and quit keys, which touch neither the buffer nor the cursor, are  *)
(* left out.                                                               *)
(***************************************************************************)
EXTENDS Integers, Sequences, FiniteSets, TLC

VARIABLES
    lines,      \* Buffer.lines
    history,    \* Buffer.history: [states, cursors, index]
    panicked,   \* TRUE once an operation has panicked
    init,       \* the lines Buffer::new was called with
    budget,     \* calls the run may still make: [edits, records]
    last,       \* the last operation: its inputs, its result, the buffer before it
    seen,       \* what was called so far: [undone, nav]
    editor      \* Editor: [position, previous_x, mode]

vars == <<lines, history, panicked, init, budget, last, seen, editor>>

----------------------------------------------------------------------------
(* Bounds *)

MaxEdits == 1       \* edit operations per run of Spec
MaxRecords == 2     \* update_history calls per run of Spec
MaxRows == 3        \* rows of the buffers SpecEdit starts from
MaxRowLen == 1      \* row length of the buffers SpecEdit starts from
MaxKeys == 2        \* keys that edit or record per run of SpecEditor
TermWidth == 3      \* terminal::size().0 in SpecEditor
TermHeight == 4     \* terminal::size().1 in SpecEditor

Chars == {"a", "b"}

----------------------------------------------------------------------------
(* Values *)

Position(px, py) == [x |-> px, y |-> py]

None == <<>>
Some(p) == <<p>>

SameLine == [kind |-> "SameLine"]
WrapLines(p) == [kind |-> "WrapLines", pos |-> p]

\* Rows of length at most n, buffers of at most r such rows.
RowsUpTo(n) == UNION {[1..k -> Chars] : k \in 0..n}
BuffersUpTo(r, n) == UNION {[1..k -> RowsUpTo(n)] : k \in 0..r}

\* Rust's slice::split_at / str::split_at and Vec::truncate, for mid <= Len(s).
Take(s, n) == SubSeq(s, 1, n)
Drop(s, n) == SubSeq(s, n + 1, Len(s))

Max(a, b) == IF a > b THEN a ELSE b
Min(a, b) == IF a < b THEN a ELSE b

RECURSIVE Repeat(_, _)
Repeat(v, n) == IF n <= 0 THEN <<>> ELSE <<v>> \o Repeat(v, n - 1)

----------------------------------------------------------------------------
(* Buffer: the edit primitives.  Each returns [panic, lines (, ret)]. *)

nth_line_len(ls, n) == IF n < Len(ls) THEN Len(ls[n + 1]) ELSE 0

\* write padding one row too many past the end (0..=difference).
write_pad_inclusive(ls, pos, c) ==
    IF pos.y < Len(ls)
    THEN LET row == ls[pos.y + 1] IN
         IF pos.x > Len(row)
         THEN [panic |-> TRUE, lines |-> ls]
         ELSE LET line == Take(row, pos.x) \o <<c>> \o Drop(row, pos.x) IN
              [panic |-> FALSE,
               lines |-> Take(ls, pos.y) \o <<line>> \o Drop(Drop(ls, pos.y), 1)]
    ELSE [panic |-> FALSE,
          lines |-> ls \o Repeat(<<>>, pos.y - Len(ls) + 1) \o <<(<<c>>)>>]

\* write putting the character after the split's second half.
write_after_rest(ls, pos, c) ==
    IF pos.y < Len(ls)
    THEN LET row == ls[pos.y + 1] IN
         IF pos.x > Len(row)
         THEN [panic |-> TRUE, lines |-> ls]
         ELSE LET line == Take(row, pos.x) \o Drop(row, pos.x) \o <<c>> IN
              [panic |-> FALSE,
               lines |-> Take(ls, pos.y) \o <<line>> \o Drop(Drop(ls, pos.y), 1)]
    ELSE [panic |-> FALSE,
          lines |-> ls \o Repeat(<<>>, pos.y - Len(ls)) \o <<(<<c>>)>>]

write(ls, pos, c) ==
    IF pos.y < Len(ls)
    THEN LET row == ls[pos.y + 1] IN
         IF pos.x > Len(row)
         THEN [panic |-> TRUE, lines |-> ls]
         ELSE LET line == Take(row, pos.x) \o <<c>> \o Drop(row, pos.x) IN
              [panic |-> FALSE,
               lines |-> Take(ls, pos.y) \o <<line>> \o Drop(Drop(ls, pos.y), 1)]
    ELSE [panic |-> FALSE,
          lines |-> ls \o Repeat(<<>>, pos.y - Len(ls)) \o <<(<<c>>)>>]

\* The cursor placed at the end of the merged row instead of at the seam.
backspace_wrap_x_end(ls, pos, wrapped_line_len) ==
    nth_line_len(ls, pos.y - 1)

\* The second part of the `Wrap line onto line above` result: ls is the buffer
\* after the merge.
backspace_wrap_x(ls, pos, wrapped_line_len) ==
    nth_line_len(ls, pos.y - 1) - wrapped_line_len

\* The length of the row that moved up instead of the row above.
backspace_delete_x_same_row(ls, pos) == nth_line_len(ls, pos.y)

\* The column of the `Delete a line` result: ls is the buffer after the deletion.
backspace_delete_x(ls, pos) == nth_line_len(ls, pos.y - 1)

\* backspace removing the character under the cursor instead of the one
\* before it.
backspace_under_cursor(ls, pos) ==
    IF pos.y < Len(ls) /\ pos.x > 0
    THEN LET row == ls[pos.y + 1] IN
         IF pos.x > Len(row)
         THEN [panic |-> TRUE, lines |-> ls, ret |-> SameLine]
         ELSE LET line == Take(row, pos.x) \o Drop(row, pos.x + 1) IN
              [panic |-> FALSE,
               lines |-> Take(ls, pos.y) \o <<line>> \o Drop(Drop(ls, pos.y), 1),
               ret   |-> SameLine]
    ELSE IF pos.x <= 1 /\ pos.y < Len(ls)
    THEN LET split0 == Take(ls, pos.y)
             split1 == Drop(ls, pos.y)
         IN
         IF nth_line_len(ls, pos.y) = 0 /\ pos.y > 0
         THEN LET deleted == split0 \o Drop(split1, 1) IN
              [panic |-> FALSE,
               lines |-> deleted,
               ret   |-> WrapLines(Position(backspace_delete_x(deleted, pos), pos.y - 1))]
         ELSE IF pos.y > 0
         THEN LET wrapped_line_len == nth_line_len(ls, pos.y)
                  wrapped == Take(split0, Len(split0) - 1)
                             \o <<split0[Len(split0)] \o split1[1]>>
                             \o Drop(split1, 1)
              IN
              [panic |-> FALSE,
               lines |-> wrapped,
               ret   |-> WrapLines(Position(backspace_wrap_x(wrapped, pos, wrapped_line_len),
                                            pos.y - 1))]
         ELSE [panic |-> FALSE, lines |-> ls, ret |-> SameLine]
    ELSE [panic |-> FALSE, lines |-> ls, ret |-> SameLine]

backspace(ls, pos) ==
    IF pos.y < Len(ls) /\ pos.x > 0
    THEN LET row == ls[pos.y + 1] IN
         IF pos.x > Len(row)
         THEN [panic |-> TRUE, lines |-> ls, ret |-> SameLine]
         ELSE LET line == Take(Take(row, pos.x), pos.x - 1) \o Drop(row, pos.x) IN
              [panic |-> FALSE,
               lines |-> Take(ls, pos.y) \o <<line>> \o Drop(Drop(ls, pos.y), 1),
               ret   |-> SameLine]
    ELSE IF pos.x <= 1 /\ pos.y < Len(ls)
    THEN LET split0 == Take(ls, pos.y)
             split1 == Drop(ls, pos.y)
         IN
         IF nth_line_len(ls, pos.y) = 0 /\ pos.y > 0
         THEN LET deleted == split0 \o Drop(split1, 1) IN
              [panic |-> FALSE,
               lines |-> deleted,
               ret   |-> WrapLines(Position(backspace_delete_x(deleted, pos), pos.y - 1))]
         ELSE IF pos.y > 0
         THEN LET wrapped_line_len == nth_line_len(ls, pos.y)
                  wrapped == Take(split0, Len(split0) - 1)
                             \o <<split0[Len(split0)] \o split1[1]>>
                             \o Drop(split1, 1)
              IN
              [panic |-> FALSE,
               lines |-> wrapped,
               ret   |-> WrapLines(Position(backspace_wrap_x(wrapped, pos, wrapped_line_len),
                                            pos.y - 1))]
         ELSE [panic |-> FALSE, lines |-> ls, ret |-> SameLine]
    ELSE [panic |-> FALSE, lines |-> ls, ret |-> SameLine]

\* new_line inserting the empty row below row pos.y.
new_line_below(ls, pos) ==
    IF pos.y < Len(ls)
    THEN [panic |-> FALSE, lines |-> Take(ls, pos.y + 1) \o <<(<<>>)>> \o Drop(ls, pos.y + 1)]
    ELSE [panic |-> FALSE, lines |-> ls \o Repeat(<<>>, pos.y - Len(ls) + 1)]

new_line(ls, pos) ==
    IF pos.y < Len(ls)
    THEN [panic |-> FALSE, lines |-> Take(ls, pos.y) \o <<(<<>>)>> \o Drop(ls, pos.y)]
    ELSE [panic |-> FALSE, lines |-> ls \o Repeat(<<>>, pos.y - Len(ls) + 1)]

\* enter splitting also when the caret is at the end of the row.
enter_split_at_end(ls, pos) ==
    IF pos.y >= Len(ls)
    THEN new_line(ls, pos)
    ELSE IF pos.x <= Len(ls[pos.y + 1])
    THEN LET split0 == Take(ls, pos.y)
             split1 == Drop(ls, pos.y)
             row    == split1[1]
         IN
         [panic |-> FALSE,
          lines |-> split0 \o <<Take(row, pos.x)>> \o <<Drop(row, pos.x)>> \o Drop(split1, 1)]
    ELSE [panic |-> FALSE, lines |-> ls]

enter(ls, pos) ==
    IF pos.y >= Len(ls)
    THEN new_line(ls, pos)
    ELSE IF pos.x < Len(ls[pos.y + 1])
    THEN LET split0 == Take(ls, pos.y)
             split1 == Drop(ls, pos.y)
             row    == split1[1]
         IN
         [panic |-> FALSE,
          lines |-> split0 \o <<Take(row, pos.x)>> \o <<Drop(row, pos.x)>> \o Drop(split1, 1)]
    ELSE [panic |-> FALSE, lines |-> ls]

----------------------------------------------------------------------------
(* History *)

update(h, new, cursor) ==
    [states  |-> Append(h.states, new),
     cursors |-> Append(h.cursors, cursor),
     index   |-> h.index + 1]

\* Vec::truncate(n) keeps the first n elements and does nothing when n >= len.
truncate(s, n) == IF n >= Len(s) THEN s ELSE Take(s, n)

\* decapitate forgetting the cursors.
decapitate_states_only(h) ==
    [states  |-> truncate(h.states, h.index),
     cursors |-> h.cursors,
     index   |-> h.index]

decapitate(h) ==
    [states  |-> truncate(h.states, h.index),
     cursors |-> truncate(h.cursors, h.index),
     index   |-> h.index]

\* states.len() - 1 is computed on usize; states is never empty when this is
\* evaluated (C7_SameLength), so the subtraction does not underflow.
is_in_past(h) == Len(h.states) - 1 > h.index

rollback(h) == [h EXCEPT !.index = h.index - 1]

\* rollforward that forgets to advance the index.
rollforward_stuck(h) == h

rollforward(h) == [h EXCEPT !.index = h.index + 1]

----------------------------------------------------------------------------
(* Buffer: construction, update_history, undo, redo *)

new(ls) ==
    [lines   |-> ls,
     history |-> [states |-> <<ls>>, cursors |-> <<Position(0, 0)>>, index |-> 0]]

update_history(ls, h, cursor) ==
    LET h1 == IF is_in_past(h) THEN decapitate(h) ELSE h
    IN  update(h1, ls, cursor)

\* undo guarded by index >= 0 with a saturating rollback: at index 0 it
\* reinstalls states[0].
undo_at_zero(ls, h) ==
    LET h1 == IF h.index > 0 THEN rollback(h) ELSE h IN
    IF h1.index < Len(h1.states) /\ h1.index < Len(h1.cursors)
    THEN [panic |-> FALSE, lines |-> h1.states[h1.index + 1], history |-> h1,
          ret |-> Some(h1.cursors[h1.index + 1])]
    ELSE [panic |-> TRUE, lines |-> ls, history |-> h, ret |-> None]

\* Vec::get(index).unwrap() panics when index is out of range.
undo(ls, h) ==
    IF h.index > 0
    THEN LET h1 == rollback(h) IN
         IF h1.index < Len(h1.states) /\ h1.index < Len(h1.cursors)
         THEN [panic |-> FALSE, lines |-> h1.states[h1.index + 1], history |-> h1,
               ret |-> Some(h1.cursors[h1.index + 1])]
         ELSE [panic |-> TRUE, lines |-> ls, history |-> h, ret |-> None]
    ELSE [panic |-> FALSE, lines |-> ls, history |-> h, ret |-> None]

\* redo guarded by index < states.len() instead of is_in_past.
redo_below_len(ls, h) ==
    IF h.index < Len(h.states)
    THEN LET h1 == rollforward(h) IN
         IF h1.index < Len(h1.states) /\ h1.index < Len(h1.cursors)
         THEN [panic |-> FALSE, lines |-> h1.states[h1.index + 1], history |-> h1,
               ret |-> Some(h1.cursors[h1.index + 1])]
         ELSE [panic |-> TRUE, lines |-> ls, history |-> h, ret |-> None]
    ELSE [panic |-> FALSE, lines |-> ls, history |-> h, ret |-> None]

redo(ls, h) ==
    IF is_in_past(h)
    THEN LET h1 == rollforward(h) IN
         IF h1.index < Len(h1.states) /\ h1.index < Len(h1.cursors)
         THEN [panic |-> FALSE, lines |-> h1.states[h1.index + 1], history |-> h1,
               ret |-> Some(h1.cursors[h1.index + 1])]
         ELSE [panic |-> TRUE, lines |-> ls, history |-> h, ret |-> None]
    ELSE [panic |-> FALSE, lines |-> ls, history |-> h, ret |-> None]

----------------------------------------------------------------------------
(* Position moves (src/src/terminal.rs) *)

position_left(p) == IF p.x # 0 THEN [p EXCEPT !.x = p.x - 1] ELSE p

position_right(p) == IF p.x # TermWidth THEN [p EXCEPT !.x = p.x + 1] ELSE p

position_up(p) == IF p.y > 0 THEN [p EXCEPT !.y = p.y - 1] ELSE p

position_down(p) == IF p.y # TermHeight - 2 THEN [p EXCEPT !.y = p.y + 1] ELSE p

----------------------------------------------------------------------------
(* Editor and Cursor (src/src/editor.rs).  e is the editor, ls the lines. *)

editor_new == [position |-> Position(0, 0), previous_x |-> 1, mode |-> "Normal"]

current_line_len(e, ls) == nth_line_len(ls, e.position.y)

mode(e, m) == [e EXCEPT !.mode = m]

\* Cursor::update
cursor_update(e) ==
    IF e.position.x # e.previous_x THEN [e EXCEPT !.previous_x = e.position.x] ELSE e

correct_cursor(e, ls) == [e EXCEPT !.position.x = current_line_len(e, ls)]

\* recall_cursor that re-applies previous_x when the row can hold it and
\* otherwise leaves the column alone.
recall_cursor_or_keep(e, ls) ==
    IF e.position.x < e.previous_x /\ current_line_len(e, ls) >= e.previous_x
    THEN [e EXCEPT !.position.x = e.previous_x]
    ELSE e

recall_cursor(e, ls) ==
    LET current_len == current_line_len(e, ls)
        e1 == IF e.position.x < e.previous_x
              THEN [e EXCEPT !.position.x = e.previous_x]
              ELSE e
    IN  IF current_len < e1.previous_x THEN correct_cursor(e1, ls) ELSE e1

left(e) == cursor_update([e EXCEPT !.position = position_left(e.position)])

\* right without the check against the row's length.
right_unchecked(e, ls) ==
    cursor_update([e EXCEPT !.position = position_right(e.position)])

right(e, ls) ==
    IF e.position.x < current_line_len(e, ls)
    THEN cursor_update([e EXCEPT !.position = position_right(e.position)])
    ELSE e

up(e, ls) ==
    LET e1 == [e EXCEPT !.position = position_up(e.position)]
        e2 == IF e1.position.x > current_line_len(e1, ls) THEN correct_cursor(e1, ls) ELSE e1
    IN  recall_cursor(e2, ls)

down(e, ls) ==
    LET e1 == [e EXCEPT !.position = position_down(e.position)]
        e2 == IF e1.position.x > current_line_len(e1, ls) THEN correct_cursor(e1, ls) ELSE e1
    IN  recall_cursor(e2, ls)

\* The Tab arm: TabWidth times write a space at the cursor and move right.
\* A write that panics ends the loop.
TabWidth == 4

RECURSIVE tab(_, _, _)
tab(ls, pos, n) ==
    IF n = 0
    THEN [panic |-> FALSE, lines |-> ls, position |-> pos]
    ELSE LET w == write(ls, pos, " ") IN
         IF w.panic
         THEN [panic |-> TRUE, lines |-> ls, position |-> pos]
         ELSE tab(w.lines, position_right(pos), n - 1)

----------------------------------------------------------------------------
(* Bookkeeping of the calls made *)

NoPos == Position(0, 0)

\* `last` describes the last call: op, its inputs (pos, ch, cursor), its result
\* ret and the buffer before it (pre).  last.first says, of an undo, that no
\* undo or redo was called before it.  For a redo that directly follows an undo,
\* last.undo holds that undo's result, the lines and the history index it
\* started from, and whether it was the first undo or redo of the run.
NoUndo == <<>>

Call(op, pos, ch, cursor, ret) ==
    [op |-> op, pos |-> pos, ch |-> ch, cursor |-> cursor, ret |-> ret,
     pre |-> [lines |-> lines, history |-> history],
     first |-> (op = "undo" /\ ~seen.nav),
     undo |-> IF op = "redo" /\ last.op = "undo"
              THEN [ret |-> last.ret, lines |-> last.pre.lines,
                    index |-> last.pre.history.index, first |-> last.first]
              ELSE NoUndo]

\* seen.undone: an undo was called after the latest update_history;
\* seen.nav: an undo or a redo was called.
SeenAfterRecord == [seen EXCEPT !.undone = FALSE]

SeenAfterUndo == [undone |-> TRUE, nav |-> TRUE]

SeenAfterRedo == [seen EXCEPT !.nav = TRUE]

\* The number of update_history calls made so far.
Records == MaxRecords - budget.records

\* The positions an edit is tried at: every column up to one past the longest
\* row and every row up to one past the first missing row.
RECURSIVE MaxLen(_)
MaxLen(ls) == IF ls = <<>> THEN 0 ELSE Max(Len(ls[1]), MaxLen(Drop(ls, 1)))

EditPositions(ls) ==
    {Position(px, py) : px \in 0..(MaxLen(ls) + 1), py \in 0..(Len(ls) + 1)}

CursorArgs == {Position(0, 0), Position(1, 0)}

----------------------------------------------------------------------------
(* Initial states *)

InitFrom(buffers, edits, records) ==
    /\ init \in buffers
    /\ lines = new(init).lines
    /\ history = new(init).history
    /\ panicked = FALSE
    /\ budget = [edits |-> edits, records |-> records]
    /\ last = [op |-> "new", pos |-> NoPos, ch |-> "", cursor |-> NoPos, ret |-> None,
               pre |-> new(init),
               first |-> FALSE, undo |-> NoUndo]
    /\ seen = [undone |-> FALSE, nav |-> FALSE]
    /\ editor = editor_new

\* Spec starts from a new file (View::new without a file name), from an empty
\* file and from a one-row file.
InitBuffers == {<<(<<>>)>>, <<>>, <<(<<"a">>)>>}

Init == InitFrom(InitBuffers, MaxEdits, MaxRecords)

InitEdit == InitFrom(BuffersUpTo(MaxRows, MaxRowLen), 1, 0)

----------------------------------------------------------------------------
(* Actions: one per public operation of Buffer *)

\* The common shape of an edit: r is the result of the primitive.
Edit(op, pos, ch, r, ret) ==
    /\ ~panicked
    /\ budget.edits > 0
    /\ budget' = [budget EXCEPT !.edits = @ - 1]
    /\ panicked' = r.panic
    /\ lines' = r.lines
    /\ last' = Call(op, pos, ch, NoPos, ret)
    /\ UNCHANGED <<history, init, seen, editor>>

Write ==
    \E pos \in EditPositions(lines), c \in Chars :
        Edit("write", pos, c, write(lines, pos, c), None)

Backspace ==
    \E pos \in EditPositions(lines) :
        LET r == backspace(lines, pos) IN Edit("backspace", pos, "", r, r.ret)

Enter ==
    \E pos \in EditPositions(lines) :
        Edit("enter", pos, "", enter(lines, pos), None)

NewLine ==
    \E pos \in EditPositions(lines) :
        Edit("new_line", pos, "", new_line(lines, pos), None)

UpdateHistory ==
    \E cursor \in CursorArgs :
        /\ ~panicked
        /\ budget.records > 0
        /\ budget' = [budget EXCEPT !.records = @ - 1]
        /\ history' = update_history(lines, history, cursor)
        /\ last' = Call("update_history", NoPos, "", cursor, None)
        /\ seen' = SeenAfterRecord
        /\ UNCHANGED <<lines, panicked, init, editor>>

Undo ==
    LET r == undo(lines, history) IN
        /\ ~panicked
        /\ panicked' = r.panic
        /\ lines' = r.lines
        /\ history' = r.history
        /\ last' = Call("undo", NoPos, "", NoPos, r.ret)
        /\ seen' = SeenAfterUndo
        /\ UNCHANGED <<init, budget, editor>>

Redo ==
    LET r == redo(lines, history) IN
        /\ ~panicked
        /\ panicked' = r.panic
        /\ lines' = r.lines
        /\ history' = r.history
        /\ last' = Call("redo", NoPos, "", NoPos, r.ret)
        /\ seen' = SeenAfterRedo
        /\ UNCHANGED <<init, budget, editor>>

Next ==
    \/ Write
    \/ Backspace
    \/ Enter
    \/ NewLine
    \/ UpdateHistory
    \/ Undo
    \/ Redo

NextEdit ==
    \/ Write
    \/ Backspace
    \/ Enter
    \/ NewLine

Spec == Init /\ [][Next]_vars

SpecEdit == InitEdit /\ [][NextEdit]_vars

----------------------------------------------------------------------------
(* Actions: one per key arm of Editor::evaluate_event *)

\* The keys that edit or record share one budget of MaxKeys; `seen` is the
\* bookkeeping of Spec and stays as it is.
KeysSpent == (MaxKeys - budget.edits) + (MaxKeys - budget.records)

\* `last` after a key event: the key, the position and character handed to
\* the buffer, the buffer's result, and the lines, the cursor column and the
\* mode before it.
Key(op, pos, ch, ret) ==
    [op |-> op, pos |-> pos, ch |-> ch, ret |-> ret,
     pre |-> [lines |-> lines, x |-> editor.position.x, mode |-> editor.mode]]

\* A key that only moves the cursor or switches the mode.
Move(op, e) ==
    /\ ~panicked
    /\ editor' = e
    /\ last' = Key(op, NoPos, "", None)
    /\ UNCHANGED <<lines, history, panicked, init, budget, seen>>

\* A key that edits the buffer: r is [panic, lines], e the editor after it.
Type(op, ch, ret, r, e) ==
    /\ ~panicked
    /\ KeysSpent < MaxKeys
    /\ budget' = [budget EXCEPT !.edits = @ - 1]
    /\ panicked' = r.panic
    /\ lines' = r.lines
    /\ editor' = IF r.panic THEN editor ELSE e
    /\ last' = Key(op, editor.position, ch, ret)
    /\ UNCHANGED <<history, init, seen>>

\* A key that walks the history: r is the result of undo or redo.
Walk(op, r) ==
    /\ ~panicked
    /\ panicked' = r.panic
    /\ lines' = r.lines
    /\ history' = r.history
    /\ editor' = IF r.panic \/ r.ret = None
                 THEN editor
                 ELSE correct_cursor([editor EXCEPT !.position = r.ret[1]], r.lines)
    /\ last' = Key(op, NoPos, "", r.ret)
    /\ UNCHANGED <<init, budget, seen>>

KeyH == editor.mode # "Insert" /\ Move("h", left(editor))

KeyJ == editor.mode # "Insert" /\ Move("j", down(editor, lines))

KeyK == editor.mode # "Insert" /\ Move("k", up(editor, lines))

KeyL == editor.mode # "Insert" /\ Move("l", right(editor, lines))

KeyU == editor.mode # "Insert" /\ Walk("u", undo(lines, history))

KeyShiftU == editor.mode # "Insert" /\ Walk("U", redo(lines, history))

KeyI == editor.mode = "Normal" /\ Move("i", mode(editor, "Insert"))

KeyA == editor.mode = "Normal" /\ Move("a", right(mode(editor, "Insert"), lines))

KeyShiftI ==
    editor.mode = "Normal" /\ Move("I", mode([editor EXCEPT !.position.x = 0], "Insert"))

KeyShiftA ==
    editor.mode = "Normal" /\ Move("A", mode(correct_cursor(editor, lines), "Insert"))

KeyO ==
    /\ editor.mode = "Normal"
    /\ LET e1 == down(mode(editor, "Insert"), lines)
           r  == new_line(lines, e1.position)
       IN  /\ ~panicked
           /\ KeysSpent < MaxKeys
           /\ budget' = [budget EXCEPT !.edits = @ - 1]
           /\ lines' = r.lines
           /\ editor' = correct_cursor(e1, r.lines)
           /\ last' = Key("o", e1.position, "", None)
           /\ UNCHANGED <<history, panicked, init, seen>>

KeyEsc ==
    /\ ~panicked
    /\ KeysSpent < MaxKeys
    /\ budget' = [budget EXCEPT !.records = @ - 1]
    /\ editor' = mode(editor, "Normal")
    /\ history' = update_history(lines, history, editor.position)
    /\ last' = Key("Esc", NoPos, "", None)
    /\ UNCHANGED <<lines, panicked, init, seen>>

KeyEnter ==
    /\ editor.mode = "Insert"
    /\ LET r  == enter(lines, editor.position)
           e1 == down(editor, r.lines)
       IN  Type("Enter", "", None, r, [e1 EXCEPT !.position.x = 0])

KeyBackspace ==
    /\ editor.mode = "Insert"
    /\ LET r == backspace(lines, editor.position) IN
       Type("Backspace", "", r.ret, r,
            IF r.ret.kind = "WrapLines"
            THEN [editor EXCEPT !.position = r.ret.pos]
            ELSE left(editor))

KeyTab ==
    LET r == tab(lines, editor.position, TabWidth) IN
    /\ ~panicked
    /\ KeysSpent < MaxKeys
    /\ budget' = [budget EXCEPT !.edits = @ - 1]
    /\ panicked' = r.panic
    /\ lines' = r.lines
    /\ editor' = [editor EXCEPT !.position = r.position]
    /\ last' = Key("Tab", editor.position, " ", None)
    /\ UNCHANGED <<history, init, seen>>

KeyChar ==
    /\ editor.mode = "Insert"
    /\ \E c \in Chars :
          Type("Char", c, None, write(lines, editor.position, c),
               [editor EXCEPT !.position = position_right(editor.position)])

NextEditor ==
    \/ KeyH
    \/ KeyJ
    \/ KeyK
    \/ KeyL
    \/ KeyU
    \/ KeyShiftU
    \/ KeyI
    \/ KeyA
    \/ KeyShiftI
    \/ KeyShiftA
    \/ KeyO
    \/ KeyEsc
    \/ KeyEnter
    \/ KeyBackspace
    \/ KeyTab
    \/ KeyChar

\* SpecEditor starts from a new file and from a two-row file.
EditorBuffers == {<<(<<>>)>>, <<(<<"a", "b">>), (<<"a">>)>>}

InitEditor == InitFrom(EditorBuffers, MaxKeys, MaxKeys)

SpecEditor == InitEditor /\ [][NextEditor]_vars

----------------------------------------------------------------------------
(* The history pointer and the snapshots *)

\* C1: after any sequence of update_history, undo and redo calls the history
\* pointer satisfies 0 <= history.index < history.states.len().
C1_IndexInRange ==
    0 <= history.index /\ history.index < Len(history.states)

\* C2: immediately after every update_history(cursor) call, history.index is
\* history.states.len() - 1, states[index] is the buffer's current lines and
\* cursors[index] is the cursor passed in.
C2_RecordAtTail ==
    last.op = "update_history" =>
        /\ history.index = Len(history.states) - 1
        /\ history.index < Len(history.cursors)
        /\ history.states[history.index + 1] = lines
        /\ history.cursors[history.index + 1] = last.cursor

\* C3: update_history called while index is not at the tail discards exactly
\* the entries after index: positions 0..=index of states and cursors are
\* kept, the new snapshot is appended at index + 1, the new length is the old
\* index + 2.
C3_DiscardsAfterIndex ==
    (last.op = "update_history" /\ is_in_past(last.pre.history)) =>
        LET h == last.pre.history IN
        /\ Len(history.states) = h.index + 2
        /\ history.states = Take(h.states, h.index + 1) \o <<lines>>
        /\ history.cursors = Take(h.cursors, h.index + 1) \o <<last.cursor>>

\* C6: after any sequence of update_history, undo and redo calls,
\* history.states[0] is the line sequence the buffer was constructed with and
\* history.cursors[0] is the initial cursor position (0,0).
C6_FirstSnapshotKept ==
    /\ Len(history.states) >= 1 /\ history.states[1] = init
    /\ Len(history.cursors) >= 1 /\ history.cursors[1] = Position(0, 0)

\* C7: after every completed Buffer operation, history.states and
\* history.cursors have the same length, and that length is at least 1.
C7_SameLength ==
    /\ Len(history.states) = Len(history.cursors)
    /\ Len(history.states) >= 1

\* C7 witness: an update_history that truncated the history has completed.
C7_Witness ==
    /\ last.op = "update_history"
    /\ is_in_past(last.pre.history)
    /\ Len(history.states) < Len(last.pre.history.states)

\* C8: undo called when history.index = 0 returns None and leaves lines,
\* history.states, history.cursors and history.index unchanged.
C8_UndoAtZeroNoOp ==
    (last.op = "undo" /\ last.pre.history.index = 0) =>
        /\ ~panicked
        /\ last.ret = None
        /\ lines = last.pre.lines
        /\ history = last.pre.history

\* C8 witness: undo was called at index 0 on edited lines, with later
\* snapshots in the history.
C8_Witness ==
    /\ last.op = "undo"
    /\ last.pre.history.index = 0
    /\ Len(last.pre.history.states) > 1
    /\ last.pre.lines # last.pre.history.states[1]

----------------------------------------------------------------------------
(* Undo and redo *)

\* C4: for any sequence of update_history calls, undo() followed immediately
\* by redo() restores the lines and the cursor present before the undo(): the
\* history is back where it was, redo returns the cursor recorded with the
\* snapshot that was current before the undo, and lines equal that snapshot
\* (which are the lines before the undo whenever these were the recorded ones).
\* With nothing recorded both calls return None and change nothing.
C4_UndoRedoRestores ==
    (last.op = "redo" /\ last.undo # NoUndo /\ last.undo.first) =>
        LET u == last.undo IN
        /\ ~panicked
        /\ history.index = u.index
        /\ history.states = last.pre.history.states
        /\ history.cursors = last.pre.history.cursors
        /\ u.ret # None =>
              /\ u.index < Len(history.states)
              /\ last.ret = Some(history.cursors[u.index + 1])
              /\ lines = history.states[u.index + 1]
              /\ (u.lines = history.states[u.index + 1] => lines = u.lines)
        /\ u.ret = None => (last.ret = None /\ lines = u.lines)

\* C4 witness: an edit was recorded, then undone, then redone.
C4_Witness ==
    /\ last.op = "redo"
    /\ last.undo # NoUndo
    /\ last.undo.first
    /\ last.undo.ret # None
    /\ last.ret # None
    /\ lines = last.undo.lines
    /\ lines # last.pre.lines

\* C5 as stated: once update_history has been called, every redo returns None
\* and leaves lines and history unchanged, until another update_history
\* followed by an undo has happened.
C5_RedoNoneUntilRecordAndUndo ==
    (last.op = "redo" /\ Records >= 1 /\ ~(Records >= 2 /\ seen.undone)) =>
        /\ last.ret = None
        /\ lines = last.pre.lines
        /\ history = last.pre.history

\* C5 amended: once update_history has been called, every redo returns None
\* and leaves lines and history unchanged until an undo is called.
C5_RedoNoneUntilUndo ==
    (last.op = "redo" /\ Records >= 1 /\ ~seen.undone) =>
        /\ ~panicked
        /\ last.ret = None
        /\ lines = last.pre.lines
        /\ history = last.pre.history

\* C5 witness: redo was called after an update_history that was made while the
\* index was not at the tail, with no undo in between.
C5_Witness ==
    /\ last.op = "redo"
    /\ Records >= 2
    /\ ~seen.undone
    /\ Len(history.states) < Records + 1
    /\ last.ret = None

----------------------------------------------------------------------------
(* Backspace at the start of a row *)

\* The buffer ls with rows y-1 and y (0-based) merged into one.
Joined(ls, y) == Take(ls, y - 1) \o <<ls[y] \o ls[y + 1]>> \o Drop(ls, y + 1)

\* The buffer ls without row y (0-based).
Removed(ls, y) == Take(ls, y) \o Drop(ls, y + 1)

\* C9 as stated: backspace(pos) with pos.y > 0 addressing a non-empty row and
\* pos.x in {0, 1} replaces rows pos.y-1 and pos.y by their concatenation,
\* leaves all other rows unchanged and returns WrapLines at the former end of
\* row pos.y-1.
C9_RowJoinAtColumn0Or1 ==
    (/\ last.op = "backspace"
     /\ last.pos.y > 0
     /\ last.pos.y < Len(last.pre.lines)
     /\ nth_line_len(last.pre.lines, last.pos.y) > 0
     /\ last.pos.x \in {0, 1}) =>
        /\ ~panicked
        /\ lines = Joined(last.pre.lines, last.pos.y)
        /\ last.ret = WrapLines(Position(nth_line_len(last.pre.lines, last.pos.y - 1),
                                         last.pos.y - 1))

\* C9 amended: the same for pos.x = 0 only.
C9_RowJoinAtColumn0 ==
    (/\ last.op = "backspace"
     /\ last.pos.y > 0
     /\ last.pos.y < Len(last.pre.lines)
     /\ nth_line_len(last.pre.lines, last.pos.y) > 0
     /\ last.pos.x = 0) =>
        /\ ~panicked
        /\ lines = Joined(last.pre.lines, last.pos.y)
        /\ last.ret = WrapLines(Position(nth_line_len(last.pre.lines, last.pos.y - 1),
                                         last.pos.y - 1))

\* C9 witness: two different non-empty rows were joined, with a non-empty row
\* after them.
C9_Witness ==
    /\ last.op = "backspace"
    /\ last.pos = Position(0, 1)
    /\ Len(last.pre.lines) = 3
    /\ nth_line_len(last.pre.lines, 0) > 0
    /\ nth_line_len(last.pre.lines, 1) > 0
    /\ nth_line_len(last.pre.lines, 2) > 0
    /\ last.pre.lines[1] # last.pre.lines[2]
    /\ Len(lines) = 2
    /\ last.ret # SameLine

----------------------------------------------------------------------------
(* write and backspace inside a row *)

\* Every row of after except row y (0-based) is the same row of before.
OtherRowsKept(before, after, y) ==
    /\ Len(after) = Len(before)
    /\ \A i \in 1..Len(before) : i # y + 1 => after[i] = before[i]

\* C11: write(pos, c) with pos.y >= the row count appends (pos.y - rowCount)
\* empty rows followed by one row containing only c, leaves the rows that
\* existed unchanged, and the buffer length becomes pos.y + 1, whatever pos.x.
C11_AppendGrowth ==
    (last.op = "write" /\ last.pos.y >= Len(last.pre.lines)) =>
        LET old == last.pre.lines IN
        /\ ~panicked
        /\ Len(lines) = last.pos.y + 1
        /\ \A i \in 1..Len(old) : lines[i] = old[i]
        /\ \A i \in (Len(old) + 1)..last.pos.y : lines[i] = <<>>
        /\ lines[last.pos.y + 1] = <<last.ch>>

\* C11 witness: a write two rows past a non-empty buffer, at a column other
\* than 0, added one empty row and the row holding the character.
C11_Witness ==
    /\ last.op = "write"
    /\ Len(last.pre.lines) >= 1
    /\ last.pos.y = Len(last.pre.lines) + 1
    /\ last.pos.x > 0
    /\ Len(lines) = Len(last.pre.lines) + 2

\* C12: write(pos, c) with pos.y an existing row and pos.x <= that row's length
\* makes row pos.y its first pos.x characters, then c, then the remaining
\* characters; the row is one longer, the row count and every other row are
\* unchanged.
C12_WriteInsideRow ==
    (/\ last.op = "write"
     /\ last.pos.y < Len(last.pre.lines)
     /\ last.pos.x <= nth_line_len(last.pre.lines, last.pos.y)) =>
        LET old == last.pre.lines[last.pos.y + 1]
            row == lines[last.pos.y + 1]
            x   == last.pos.x
        IN
        /\ ~panicked
        /\ OtherRowsKept(last.pre.lines, lines, last.pos.y)
        /\ Len(row) = Len(old) + 1
        /\ \A j \in 1..x : row[j] = old[j]
        /\ row[x + 1] = last.ch
        /\ \A j \in (x + 2)..Len(row) : row[j] = old[j - 1]

\* C12 witness: a character was written in front of a different character, in
\* the middle row of three.
C12_Witness ==
    /\ last.op = "write"
    /\ last.pos = Position(0, 1)
    /\ Len(last.pre.lines) = 3
    /\ nth_line_len(last.pre.lines, 1) >= 1
    /\ last.pre.lines[2][1] # last.ch
    /\ nth_line_len(lines, 1) = nth_line_len(last.pre.lines, 1) + 1

\* C13: backspace(pos) with pos.y an existing row and 0 < pos.x <= the row's
\* length removes exactly the character at index pos.x - 1 of that row,
\* returns SameLine and leaves the row count and every other row unchanged;
\* and after write(pos, c) inside a row, backspace at (pos.x + 1, pos.y)
\* gives back the buffer write started from.
C13_BackspaceInsideRow ==
    /\ (/\ last.op = "backspace"
        /\ last.pos.y < Len(last.pre.lines)
        /\ 0 < last.pos.x
        /\ last.pos.x <= nth_line_len(last.pre.lines, last.pos.y)) =>
           LET old == last.pre.lines[last.pos.y + 1]
               row == lines[last.pos.y + 1]
               x   == last.pos.x
           IN
           /\ ~panicked
           /\ last.ret = SameLine
           /\ OtherRowsKept(last.pre.lines, lines, last.pos.y)
           /\ Len(row) = Len(old) - 1
           /\ \A j \in 1..(x - 1) : row[j] = old[j]
           /\ \A j \in x..Len(row) : row[j] = old[j + 1]
    /\ (/\ last.op = "write"
        /\ ~panicked
        /\ last.pos.y < Len(last.pre.lines)) =>
           LET r == backspace(lines, Position(last.pos.x + 1, last.pos.y)) IN
           /\ ~r.panic
           /\ r.ret = SameLine
           /\ r.lines = last.pre.lines

\* C13 witness: the only character of the middle row of three was removed.
C13_Witness ==
    /\ last.op = "backspace"
    /\ last.pos = Position(1, 1)
    /\ Len(last.pre.lines) = 3
    /\ nth_line_len(last.pre.lines, 1) = 1
    /\ nth_line_len(lines, 1) = 0
    /\ last.ret = SameLine
    /\ nth_line_len(lines, 0) > 0

----------------------------------------------------------------------------
(* backspace at column 0, enter, new_line *)

\* C14: backspace at column 0 leaves the buffer alone and yields SameLine at
\* (0, 0), and yields WrapLines onto row pos.y - 1 whenever pos.y > 0 and row
\* pos.y - 1 exists, row pos.y itself existing or not.
C14_Column0Result ==
    (last.op = "backspace" /\ last.pos.x = 0) =>
        /\ ~panicked
        /\ last.pos.y = 0 => (lines = last.pre.lines /\ last.ret = SameLine)
        /\ (last.pos.y > 0 /\ last.pos.y - 1 < Len(last.pre.lines)) =>
               (last.ret.kind = "WrapLines" /\ last.ret.pos.y = last.pos.y - 1)

\* C15: enter inside an existing row (pos.x < row length) puts the characters
\* before pos.x on row pos.y and the rest on a new row pos.y + 1, the rows
\* above and below keeping their content; at or past the end of an existing
\* row it changes nothing; past the last row it is new_line(pos).
C15_EnterSplits ==
    last.op = "enter" =>
        LET old == last.pre.lines
            y   == last.pos.y
            x   == last.pos.x
        IN
        /\ ~panicked
        /\ (y < Len(old) /\ x < Len(old[y + 1])) =>
               /\ Len(lines) = Len(old) + 1
               /\ \A i \in 1..y : lines[i] = old[i]
               /\ \A i \in (y + 2)..Len(old) : lines[i + 1] = old[i]
               /\ Len(lines[y + 1]) = x
               /\ \A j \in 1..x : lines[y + 1][j] = old[y + 1][j]
               /\ Len(lines[y + 2]) = Len(old[y + 1]) - x
               /\ \A j \in 1..Len(lines[y + 2]) : lines[y + 2][j] = old[y + 1][x + j]
               /\ lines[y + 1] \o lines[y + 2] = old[y + 1]
        /\ (y < Len(old) /\ x >= Len(old[y + 1])) => lines = old
        /\ y >= Len(old) => lines = new_line(old, last.pos).lines

C15_Witness ==
    /\ last.op = "enter"
    /\ last.pos = Position(0, 1)
    /\ Len(last.pre.lines) = 3
    /\ nth_line_len(last.pre.lines, 1) = 1
    /\ nth_line_len(last.pre.lines, 2) = 1
    /\ Len(lines) = 4
    /\ lines[2] = <<>>
    /\ lines[4] = last.pre.lines[3]

\* C16: new_line at an existing row pos.y inserts one empty row at index pos.y
\* and moves the rows from pos.y on down by one, unchanged; at or past the end
\* it appends empty rows only, up to a length of pos.y + 1.
C16_NewLineInserts ==
    last.op = "new_line" =>
        LET old == last.pre.lines
            y   == last.pos.y
        IN
        /\ ~panicked
        /\ Len(lines) = Max(Len(old), y) + 1
        /\ \A i \in 1..Len(lines) :
               lines[i] = IF i <= y /\ i <= Len(old) THEN old[i]
                          ELSE IF y < Len(old) /\ i > y + 1 THEN old[i - 1]
                          ELSE <<>>

C16_Witness ==
    /\ last.op = "new_line"
    /\ last.pos.y = 1
    /\ Len(last.pre.lines) = 3
    /\ \A i \in 1..3 : last.pre.lines[i] # <<>>
    /\ Len(lines) = 4
    /\ lines[2] = <<>>

\* C17: the buffer always holds at least one row.
C17_LinesNeverEmpty == Len(lines) >= 1

----------------------------------------------------------------------------
(* redo after an undo *)

\* C20: a redo called directly after an undo that returned Some returns Some
\* and puts history.index back where it was before the undo; it also puts the
\* lines back when the buffer before the undo was the snapshot at that index.
C20_UndoCanBeRedone ==
    (last.op = "redo" /\ last.undo # NoUndo /\ last.undo.ret # None) =>
        /\ ~panicked
        /\ last.ret # None
        /\ history.index = last.undo.index
        /\ (/\ last.undo.index < Len(history.states)
            /\ history.states[last.undo.index + 1] = last.undo.lines) =>
               lines = last.undo.lines

----------------------------------------------------------------------------
(* The cursor under key events *)

\* The row the cursor is on after the last key and the column the clamp of
\* up / down yields there.
DestLen == nth_line_len(lines, editor.position.y)

Clamped == Min(last.pre.x, DestLen)

\* C18 as stated: after j or k the column is previous_x if the clamped column
\* is below previous_x and the row is at least previous_x long, and is the
\* clamped column min(old column, row length) in every other case.
C18_StickyColumn ==
    last.op \in {"j", "k"} =>
        editor.position.x = IF Clamped < editor.previous_x /\ DestLen >= editor.previous_x
                            THEN editor.previous_x
                            ELSE Clamped

\* C18: after j or k the column is previous_x if the clamped column is below
\* previous_x and the row is at least previous_x long, is the row's length if
\* the clamped column is below previous_x and the row is shorter than
\* previous_x, and is the clamped column otherwise.
C18_StickyColumnOrEnd ==
    last.op \in {"j", "k"} =>
        editor.position.x = IF Clamped < editor.previous_x
                            THEN IF DestLen >= editor.previous_x
                                 THEN editor.previous_x
                                 ELSE DestLen
                            ELSE Clamped

C18_Witness ==
    /\ last.op \in {"j", "k"}
    /\ last.pre.x < DestLen
    /\ DestLen < editor.previous_x
    /\ editor.position.x = DestLen

\* C19: a key that writes hands Buffer::write a row that exists or is the
\* first missing one: pos.y <= the row count.
C19_WriteAtDocumentEnd ==
    last.op \in {"Char", "Tab"} => last.pos.y <= Len(last.pre.lines)

\* C21: after any sequence of key events the cursor column is at most the
\* length of the cursor's row (0 for a row that does not exist), and no write
\* or backspace has split a row out of range.
C21_ColumnInRow ==
    /\ ~panicked
    /\ editor.position.x <= nth_line_len(lines, editor.position.y)
    /\ last.op \in {"Char", "Tab", "Backspace"} =>
           last.pos.x <= nth_line_len(last.pre.lines, last.pos.y)

\* An undo has put back a shorter row under the cursor.
C21_Witness ==
    /\ last.op = "u"
    /\ last.ret # None
    /\ lines # last.pre.lines
    /\ last.pre.x > nth_line_len(lines, editor.position.y)
    /\ editor.position.x = nth_line_len(lines, editor.position.y)

\* The snapshot the history points at: the one installed by the last undo or
\* redo, or the one the last update_history recorded.
CurrentSnapshot ==
    IF history.index < Len(history.states)
    THEN history.states[history.index + 1]
    ELSE history.states[Len(history.states)]

\* C22: a key handled in Normal mode, other than u, U and the keys that switch
\* to Insert mode, leaves the lines as they were, and in Normal mode the lines
\* are the snapshot last recorded or restored.
C22_NormalModeFrame ==
    /\ (/\ last.op \notin {"new", "u", "U", "i", "a", "I", "A", "o"}
        /\ last.pre.mode = "Normal") => lines = last.pre.lines
    /\ editor.mode = "Normal" => lines = CurrentSnapshot

====
